---- MODULE Spec2Model ----
(***************************************************************************)
(* Model of src/tic-tac-toe/__main__.py: the TicTacToe class (board, turn  *)
(* cursor, move validation, win/draw detection), its play() loop and the   *)
(* replay loop of main().                                                  *)
(*                                                                         *)
(* board[x][y] is the cell of row index x and column index y, holding 0    *)
(* (empty), marker_x or marker_o, exactly as the Python list of lists.     *)
(* An input line is a sequence of one-character strings.                   *)
(***************************************************************************)
EXTENDS Integers, Sequences, FiniteSets, TLC

VARIABLES
    pc,          \* position of main()/play(): see PcValues
    size,        \* main's local `size` (the requested size, kept for replays)
    board,       \* self.board
    board_len,   \* self.board_len (= self.board_size)
    player,      \* self.player
    winner,      \* play's local `winner`: {} for None, {m} for marker m
    lastResult,  \* how the place_marker call of this turn of the loop ended
    moves,       \* number of place_marker calls of this game that returned True
    replayed,    \* main is inside its `while` loop: the game was constructed at line 197
    probe        \* the read operation a probe called, its arguments and what it returned

vars == <<pc, size, board, board_len, player, winner, lastResult, moves, replayed, probe>>

----------------------------------------------------------------------------
(* Program constants *)

board_min_size == 3
board_max_size == 9
marker_x == 1
marker_o == 2

(* Bounds of the model *)

\* requested sizes range over (board_min_size - LowSlack)..(board_max_size + HighSlack)
LowSlack == 4
HighSlack == 1
\* largest board size for which a family of arbitrary boards is probed
MaxProbeSize == 4

SizeInputs == (board_min_size - LowSlack)..(board_max_size + HighSlack)

PcValues ==
    {"SelectSize", "AwaitingMove", "Placed", "Rejected", "Won", "Drawn", "Exit",
     "Probe", "Probed", "ProbedFull", "ProbedSymbol"}

----------------------------------------------------------------------------
(* Python primitives *)

Max(a, b) == IF a >= b THEN a ELSE b
Min(a, b) == IF a <= b THEN a ELSE b

\* the one-character strings int() converts; int() of any other raises ValueError
DigitChars == {"0", "1", "2", "3", "4", "5", "6", "7", "8", "9"}

IntOfChar(c) ==
    CASE c = "0" -> 0 [] c = "1" -> 1 [] c = "2" -> 2 [] c = "3" -> 3
      [] c = "4" -> 4 [] c = "5" -> 5 [] c = "6" -> 6 [] c = "7" -> 7
      [] c = "8" -> 8 [] c = "9" -> 9

\* list indexing lst[i] on a list of length n: TRUE when it raises IndexError
RaisesIndexError(i, n) == ~(i >= 0 - n /\ i < n)

\* the position lst[i] reads when it does not raise (negative indices wrap)
PyIndex(i, n) == IF i < 0 THEN i + n ELSE i

----------------------------------------------------------------------------
(* TicTacToe.__init__ *)

\* the clamp without its lower limit
ClampSize_NoLower(s) == Min(board_max_size, s)
\* max and min exchanged
ClampSize_Swapped(s) == Min(board_min_size, Max(board_max_size, s))
ClampSize(s) == Max(board_min_size, Min(board_max_size, s))

NewBoard(n) == [x \in 0..(n - 1) |-> [y \in 0..(n - 1) |-> 0]]

----------------------------------------------------------------------------
(* TicTacToe.is_valid_move: "True", "False" or "IndexError" *)

\* is_valid_move without the lower bound on x
is_valid_move_NoLowerBound(b, n, x, y) ==
    IF ~(n > x) THEN "False"
    ELSE IF RaisesIndexError(x, n) \/ RaisesIndexError(y, n) THEN "IndexError"
    ELSE IF ~(0 = b[PyIndex(x, n)][PyIndex(y, n)]) THEN "False"
    ELSE IF 0 <= y /\ y < n THEN "True"
    ELSE "False"

\* is_valid_move without the test that the cell is empty
is_valid_move_NoEmptyTest(b, n, x, y) ==
    IF ~(n > x) THEN "False"
    ELSE IF ~(x >= 0) THEN "False"
    ELSE IF RaisesIndexError(y, n) THEN "IndexError"
    ELSE IF 0 <= y /\ y < n THEN "True"
    ELSE "False"

is_valid_move(b, n, x, y) ==
    IF ~(n > x) THEN "False"
    ELSE IF ~(x >= 0) THEN "False"
    ELSE IF RaisesIndexError(y, n) THEN "IndexError"
    ELSE IF ~(0 = b[x][PyIndex(y, n)]) THEN "False"
    ELSE IF 0 <= y /\ y < n THEN "True"
    ELSE "False"

\* the length test accepting longer lines, whose first two characters are then read
ParsePos_AtLeastTwo(pos) ==
    IF Len(pos) < 2 THEN << >>
    ELSE IF pos[1] \notin DigitChars \/ pos[2] \notin DigitChars THEN << >>
    ELSE <<IntOfChar(pos[1]) - 1, IntOfChar(pos[2]) - 1>>

(* TicTacToe.place_marker, lines 109-112: the length test and the two      *)
(* int() conversions; << >> when either raises ValueError, else <<y, x>>   *)

ParsePos(pos) ==
    IF Len(pos) # 2 THEN << >>
    ELSE IF pos[1] \notin DigitChars \/ pos[2] \notin DigitChars THEN << >>
    ELSE <<IntOfChar(pos[1]) - 1, IntOfChar(pos[2]) - 1>>

\* self.board[x][y] = self.player (list assignment, negative indices wrap)
WriteCell(b, n, x, y, p) == [b EXCEPT ![PyIndex(x, n)][PyIndex(y, n)] = p]

\* place_marker writing the cell before it has validated the move
place_marker_WriteFirst(b, n, p, pos) ==
    LET yx == ParsePos(pos)
    IN  IF yx = << >>
        THEN [ret |-> FALSE, kind |-> "InvalidInput", exc |-> "ValueError", board |-> b]
        ELSE LET v == is_valid_move(b, n, yx[2], yx[1])
                 inside == yx[1] >= 0 /\ yx[1] < n /\ yx[2] >= 0 /\ yx[2] < n
                 w == IF inside THEN WriteCell(b, n, yx[2], yx[1], p) ELSE b
             IN  IF v = "IndexError"
                 THEN [ret |-> FALSE, kind |-> "InvalidInput", exc |-> "IndexError",
                       board |-> b]
                 ELSE IF v = "False"
                 THEN [ret |-> FALSE, kind |-> "InvalidMove", exc |-> "None", board |-> w]
                 ELSE [ret |-> TRUE, kind |-> "Placed", exc |-> "None", board |-> w]

(* TicTacToe.place_marker: the value returned, the outcome the caller sees *)
(* ("Placed", or the message printed: "InvalidMove" for `Invalid move!`,   *)
(* "InvalidInput" for `Invalid input!`), the exception caught, and the     *)
(* board it leaves                                                         *)

place_marker(b, n, p, pos) ==
    LET yx == ParsePos(pos)
    IN  IF yx = << >>
        THEN [ret |-> FALSE, kind |-> "InvalidInput", exc |-> "ValueError", board |-> b]
        ELSE LET v == is_valid_move(b, n, yx[2], yx[1])
             IN  IF v = "IndexError"
                 THEN [ret |-> FALSE, kind |-> "InvalidInput", exc |-> "IndexError",
                       board |-> b]
                 ELSE IF v = "False"
                 THEN [ret |-> FALSE, kind |-> "InvalidMove", exc |-> "None", board |-> b]
                 ELSE [ret |-> TRUE, kind |-> "Placed", exc |-> "None",
                       board |-> WriteCell(b, n, yx[2], yx[1], p)]

----------------------------------------------------------------------------
(* TicTacToe.get_symbol *)

\* the glyphs of the two markers exchanged
get_symbol_Exchanged(b, x, y) ==
    IF b[x][y] = marker_x THEN "O"
    ELSE IF b[x][y] = marker_o THEN "X"
    ELSE "-"

get_symbol(b, x, y) ==
    IF b[x][y] = marker_x THEN "X"
    ELSE IF b[x][y] = marker_o THEN "O"
    ELSE "-"

----------------------------------------------------------------------------
(* TicTacToe.full *)

\* the test asking for empty cells instead of marked ones
full_Inverted(b, n) == \A x \in 0..(n - 1) : \A y \in 0..(n - 1) : b[x][y] = 0

full(b, n) == \A x \in 0..(n - 1) : \A y \in 0..(n - 1) : b[x][y] # 0

(* TicTacToe.switch_player *)

\* the toggle with its test on the wrong marker
switch_player_Stuck(p) == IF p = marker_x THEN marker_x ELSE marker_o
switch_player(p) == IF p = marker_o THEN marker_x ELSE marker_o

----------------------------------------------------------------------------
(* TicTacToe.check_win: {} for None, {m} for the marker returned *)

\* len(set(line)) == 1 and line[0] != 0, for a line given as a function on 0..n-1
LineWins(line, n) == (\A i \in 0..(n - 1) : line[i] = line[0]) /\ line[0] # 0

RowLine(b, n, x) == [i \in 0..(n - 1) |-> b[x][i]]
ColLine(b, n, y) == [i \in 0..(n - 1) |-> b[i][y]]
Diag1(b, n) == [i \in 0..(n - 1) |-> b[i][i]]
\* the anti-diagonal read as the main diagonal
Diag2_AsDiag1(b, n) == [i \in 0..(n - 1) |-> b[i][i]]
Diag2(b, n) == [i \in 0..(n - 1) |-> b[n - (i + 1)][i]]

\* the greatest element instead: the lines scanned from the last to the first
Least_Greatest(S) == CHOOSE i \in S : \A j \in S : i >= j
\* the least element of a non-empty set of integers
Least(S) == CHOOSE i \in S : \A j \in S : i <= j

check_win(b, n) ==
    LET rows == {x \in 0..(n - 1) : LineWins(RowLine(b, n, x), n)}
        cols == {y \in 0..(n - 1) : LineWins(ColLine(b, n, y), n)}
    IN  IF rows # {} THEN {b[Least(rows)][0]}
        ELSE IF cols # {} THEN {b[0][Least(cols)]}
        ELSE IF LineWins(Diag1(b, n), n) THEN {Diag1(b, n)[0]}
        ELSE IF LineWins(Diag2(b, n), n) THEN {Diag2(b, n)[0]}
        ELSE {}

\* Python truthiness of check_win's result (`if winner:`)
Truthy(w) == w # {} /\ w # {0}

----------------------------------------------------------------------------
(* Inputs *)

(* Lines typed at the move prompt: every pair of the digits 0..3, which    *)
(* plays the smallest board to its end; column 9 of row 4, which is a row  *)
(* too high on size 3, a column too high on sizes 4..8 and a cell on size  *)
(* 9; and lines that are not two digits.                                   *)
MoveChars == {"0", "1", "2", "3"}

MoveInputs ==
    {<<c, r>> : c \in MoveChars, r \in MoveChars}
      \cup {<<"9", "4">>}
      \cup {<< >>, <<"1">>, <<"a", "b", "c">>, <<"1", "2", "3">>,
            <<"a", "1">>, <<"1", "a">>, <<"-", "1">>}

\* answers typed at the replay prompt, with str.lower() of each
ReplayAnswers == {"y", "Y", "", "n", "N", "yes", "YES"}

Lower(s) ==
    CASE s = "Y" -> "y" [] s = "N" -> "n" [] s = "YES" -> "yes" [] OTHER -> s

\* s in "y": s is a substring of the one-character string "y"
InY(s) == s = "" \/ s = "y"

----------------------------------------------------------------------------
(* main() and TicTacToe.play() *)

\* no read operation probed
NoProbe == [op |-> "None", x |-> 0, y |-> 0, ret |-> "None"]

Init ==
    /\ pc = "SelectSize"
    /\ replayed = FALSE
    /\ probe = NoProbe
    /\ size = 0
    /\ board = << >>
    /\ board_len = 0
    /\ player = 0
    /\ winner = {}
    /\ lastResult = "None"
    /\ moves = 0

\* game = TicTacToe(s); game.play() up to the first prompt
Construct(s) ==
    /\ board_len' = ClampSize(s)
    /\ board' = NewBoard(ClampSize(s))
    /\ player' = marker_x
    /\ winner' = {}
    /\ lastResult' = "None"
    /\ moves' = 0
    /\ pc' = "AwaitingMove"

\* size = int(input(...)); game = TicTacToe(size); game.play()
SelectSize(s) ==
    /\ pc = "SelectSize"
    /\ size' = s
    /\ Construct(s)
    /\ UNCHANGED <<replayed, probe>>

\* pos = input(...); self.place_marker(pos)
TryMove(pos) ==
    /\ pc = "AwaitingMove"
    /\ LET r == place_marker(board, board_len, player, pos)
       IN  /\ board' = r.board
           /\ lastResult' = r.kind
           /\ moves' = IF r.ret THEN moves + 1 ELSE moves
           /\ pc' = IF r.ret THEN "Placed" ELSE "Rejected"
    /\ UNCHANGED <<size, board_len, player, winner, replayed, probe>>

\* place_marker returned False: back to the top of `while True:`, the next prompt
Reprompt ==
    /\ pc = "Rejected"
    /\ pc' = "AwaitingMove"
    /\ lastResult' = "None"
    /\ UNCHANGED <<size, board, board_len, player, winner, moves, replayed, probe>>

\* the body with the full-board test before the win test
AfterMove_FullFirst ==
    /\ pc = "Placed"
    /\ LET w == check_win(board, board_len)
       IN  /\ winner' = w
           /\ IF full(board, board_len)
              THEN pc' = "Drawn" /\ player' = player
              ELSE IF Truthy(w)
              THEN pc' = "Won" /\ player' = player
              ELSE pc' = "AwaitingMove" /\ player' = switch_player(player)
           /\ lastResult' = IF pc' = "AwaitingMove" THEN "None" ELSE lastResult
    /\ UNCHANGED <<size, board, board_len, moves, replayed, probe>>

\* the body switching the player before it looks for a winner
AfterMove_SwitchFirst ==
    /\ pc = "Placed"
    /\ LET w == check_win(board, board_len)
       IN  /\ winner' = w
           /\ player' = switch_player(player)
           /\ IF Truthy(w)
              THEN pc' = "Won"
              ELSE IF full(board, board_len)
              THEN pc' = "Drawn"
              ELSE pc' = "AwaitingMove"
           /\ lastResult' = IF pc' = "AwaitingMove" THEN "None" ELSE lastResult
    /\ UNCHANGED <<size, board, board_len, moves, replayed, probe>>

\* the body of `if self.place_marker(pos):`
AfterMove ==
    /\ pc = "Placed"
    /\ LET w == check_win(board, board_len)
       IN  /\ winner' = w
           /\ IF Truthy(w)
              THEN pc' = "Won" /\ player' = player
              ELSE IF full(board, board_len)
              THEN pc' = "Drawn" /\ player' = player
              ELSE pc' = "AwaitingMove" /\ player' = switch_player(player)
           /\ lastResult' = IF pc' = "AwaitingMove" THEN "None" ELSE lastResult
    /\ UNCHANGED <<size, board, board_len, moves, replayed, probe>>

\* the replay playing on with the object of the game that ended
Replay_SameGame(ans) ==
    /\ pc \in {"Won", "Drawn"}
    /\ InY(Lower(ans))
    /\ board' = NewBoard(board_len)
    /\ winner' = {}
    /\ lastResult' = "None"
    /\ moves' = 0
    /\ pc' = "AwaitingMove"
    /\ replayed' = TRUE
    /\ UNCHANGED <<size, board_len, player, probe>>

\* while input(...).lower() in "y": game = TicTacToe(size); game.play()
Replay(ans) ==
    /\ pc \in {"Won", "Drawn"}
    /\ InY(Lower(ans))
    /\ Construct(size)
    /\ replayed' = TRUE
    /\ UNCHANGED <<size, probe>>

\* sys.exit()
Quit(ans) ==
    /\ pc \in {"Won", "Drawn"}
    /\ ~InY(Lower(ans))
    /\ pc' = "Exit"
    /\ UNCHANGED <<size, board, board_len, player, winner, lastResult, moves,
                   replayed, probe>>

Next ==
    \/ \E s \in SizeInputs : SelectSize(s)
    \/ \E pos \in MoveInputs : TryMove(pos)
    \/ Reprompt
    \/ AfterMove
    \/ \E ans \in ReplayAnswers : Replay(ans)
    \/ \E ans \in ReplayAnswers : Quit(ans)

Spec == Init /\ [][Next]_vars

(* The same program on the board size whose every cell MoveInputs can      *)
(* name, with the scheduling the loops give: after place_marker returns,   *)
(* play() goes on to its next statement, and the player, who is asked      *)
(* again after every rejected line, eventually types an acceptable one     *)
(* whenever one exists.                                                    *)

LiveSizes == {s \in SizeInputs : ClampSize(s) = board_min_size}

AcceptedMove == \E pos \in MoveInputs : TryMove(pos) /\ pc' = "Placed"

NextLive ==
    \/ \E s \in LiveSizes : SelectSize(s)
    \/ \E pos \in MoveInputs : TryMove(pos)
    \/ Reprompt
    \/ AfterMove
    \/ \E ans \in ReplayAnswers : Replay(ans)
    \/ \E ans \in ReplayAnswers : Quit(ans)

SpecLive ==
    /\ Init
    /\ [][NextLive]_vars
    /\ WF_vars(Reprompt)
    /\ WF_vars(AfterMove)
    /\ SF_vars(AcceptedMove)

----------------------------------------------------------------------------
(* Arbitrary boards, for the read operations.  A probe starts from a board *)
(* written directly into self.board (as a unit test would) and calls one   *)
(* read operation on it.  Every board of size board_min_size is probed;    *)
(* on larger sizes, every board obtained from an empty board or a board    *)
(* full of X by painting two lines and then writing one cell.              *)

Markers == {marker_x, marker_o}
CellValues == {0} \cup Markers

\* the cells of a line: rows, columns, the main and the anti-diagonal
LineCells(n) ==
    {{<<x, y>> : y \in 0..(n - 1)} : x \in 0..(n - 1)}
      \cup {{<<x, y>> : x \in 0..(n - 1)} : y \in 0..(n - 1)}
      \cup {{<<i, i>> : i \in 0..(n - 1)}}
      \cup {{<<n - (i + 1), i>> : i \in 0..(n - 1)}}

Paint(b, n, cells, m) ==
    [x \in 0..(n - 1) |-> [y \in 0..(n - 1) |->
        IF <<x, y>> \in cells THEN m ELSE b[x][y]]]

ProbeBoards(n) ==
    IF n = board_min_size
    THEN [0..(n - 1) -> [0..(n - 1) -> CellValues]]
    ELSE {Paint(Paint(Paint(Paint(NewBoard(n), n, UNION LineCells(n), v0),
                              n, l1, m1), n, l2, m2), n, {c}, v) :
            v0 \in {0, marker_x},
            <<l1, l2>> \in LineCells(n) \X LineCells(n),
            <<m1, m2>> \in Markers \X Markers,
            <<c, v>> \in ((0..(n - 1)) \X (0..(n - 1))) \X CellValues}

InitProbe ==
    /\ pc = "Probe"
    /\ board_len \in board_min_size..MaxProbeSize
    /\ size = board_len
    /\ board \in ProbeBoards(board_len)
    /\ player \in Markers
    /\ winner = {}
    /\ lastResult = "None"
    /\ moves = 0
    /\ replayed = FALSE
    /\ probe = NoProbe

\* winner = self.check_win()
ProbeCheckWin ==
    /\ pc = "Probe"
    /\ winner' = check_win(board, board_len)
    /\ pc' = "Probed"
    /\ UNCHANGED <<size, board, board_len, player, lastResult, moves, replayed, probe>>

\* Python's str(bool)
BoolStr(v) == IF v THEN "True" ELSE "False"

\* self.full()
ProbeFull ==
    /\ pc = "Probe"
    /\ probe' = [op |-> "full", x |-> 0, y |-> 0, ret |-> BoolStr(full(board, board_len))]
    /\ pc' = "ProbedFull"
    /\ UNCHANGED <<size, board, board_len, player, winner, lastResult, moves, replayed>>

\* self.get_symbol(x, y), as print_board calls it: for i, j in range(self.board_len)
ProbeSymbol(x, y) ==
    /\ pc = "Probe"
    /\ probe' = [op |-> "get_symbol", x |-> x, y |-> y, ret |-> get_symbol(board, x, y)]
    /\ pc' = "ProbedSymbol"
    /\ UNCHANGED <<size, board, board_len, player, winner, lastResult, moves, replayed>>

NextProbe ==
    \/ ProbeCheckWin
    \/ ProbeFull
    \/ \E x \in 0..(board_len - 1), y \in 0..(board_len - 1) : ProbeSymbol(x, y)

SpecProbe == InitProbe /\ [][NextProbe]_vars

----------------------------------------------------------------------------
(* Vocabulary of the properties *)

Cells(n) == (0..(n - 1)) \X (0..(n - 1))

\* player m owns a complete line of board b
OwnsLine(b, n, m) == \E l \in LineCells(n) : \A c \in l : b[c[1]][c[2]] = m

\* number of cells of b holding v
Count(b, n, v) == Cardinality({c \in Cells(n) : b[c[1]][c[2]] = v})

\* a game exists (main has constructed one)
InGame == pc \in {"AwaitingMove", "Placed", "Rejected", "Won", "Drawn", "Exit"}

----------------------------------------------------------------------------
(* C1: a place_marker call that returns False, for whatever reason, leaves *)
(* the board, the current player and the rest of the game as they were,    *)
(* and the only step that follows is the next prompt for the same player:  *)
(* no check_win/full/switch_player step.                                   *)

FailedKinds == {"InvalidMove", "InvalidInput"}

C1_FailedMoveChangesNothing ==
    [][/\ (pc = "AwaitingMove" /\ (lastResult' \in FailedKinds \/ pc' = "Rejected"))
            => /\ pc' = "Rejected"
               /\ lastResult' \in FailedKinds
               /\ <<board, board_len, player, winner, moves, size>>'
                    = <<board, board_len, player, winner, moves, size>>
       /\ pc = "Rejected"
            => /\ pc' = "AwaitingMove"
               /\ <<board, board_len, player, winner, moves, size>>'
                    = <<board, board_len, player, winner, moves, size>>]_vars

\* a move was rejected on a board that already holds markers, O to move
C1_Witness ==
    /\ pc = "Rejected"
    /\ lastResult = "InvalidMove"
    /\ player = marker_o
    /\ Count(board, board_len, 0) < board_len * board_len

(* C2: a place_marker call that returns True fills exactly one cell that   *)
(* was empty with the marker of the player whose turn it was, leaves every *)
(* other cell alone and does not change the current player.                *)

C2_SuccessfulMoveFillsOneCell ==
    [][(pc = "AwaitingMove" /\ pc' = "Placed")
         => /\ board_len' = board_len
            /\ player' = player
            /\ DOMAIN board' = DOMAIN board
            /\ \E c \in Cells(board_len) :
                 /\ board[c[1]][c[2]] = 0
                 /\ board'[c[1]][c[2]] = player
                 /\ \A d \in Cells(board_len) \ {c} :
                      board'[d[1]][d[2]] = board[d[1]][d[2]]]_vars

\* O has just placed a marker, the turn not yet switched
C2_Witness ==
    /\ pc = "Placed"
    /\ player = marker_o
    /\ Count(board, board_len, marker_o) = 2

(* C3 as stated: on every board, check_win returns player m if and only if *)
(* m owns a complete row, column or diagonal, and None if and only if      *)
(* neither player owns one.                                                *)

C3_Original ==
    pc = "Probed" =>
        /\ \A m \in Markers : (winner = {m}) <=> OwnsLine(board, board_len, m)
        /\ (winner = {}) <=> ~(\E m \in Markers : OwnsLine(board, board_len, m))

(* C3 amended: check_win returns a player only if that player owns a       *)
(* complete line, returns None if and only if neither player owns one, and *)
(* returns m whenever m is the only player who owns one.                   *)

C3_CheckWinSound ==
    pc = "Probed" =>
        /\ winner \in {{}} \cup {{m} : m \in Markers}
        /\ \A m \in Markers : (winner = {m}) => OwnsLine(board, board_len, m)
        /\ (winner = {}) <=> ~(\E m \in Markers : OwnsLine(board, board_len, m))
        /\ \A m \in Markers :
             (OwnsLine(board, board_len, m)
                /\ ~OwnsLine(board, board_len, switch_player(m)))
               => winner = {m}

\* check_win returned O on a board larger than the smallest where only O owns a line
C3_Witness ==
    /\ pc = "Probed"
    /\ board_len > board_min_size
    /\ winner = {marker_o}
    /\ ~OwnsLine(board, board_len, marker_x)

----------------------------------------------------------------------------
(* C4: after a successful move, a complete line makes the game Won for its *)
(* owner, also when the move filled the last empty cell; otherwise a full  *)
(* board makes it Drawn; otherwise the turn switches and play awaits the   *)
(* next move.  From Won or Drawn the only steps are the end of the program *)
(* and the start of a fresh game: no move, no switch.                      *)

C4_OutcomeAfterMove ==
    [][/\ pc = "Placed" =>
            /\ board' = board
            /\ IF \E m \in Markers : OwnsLine(board, board_len, m)
               THEN /\ pc' = "Won"
                    /\ \E m \in Markers :
                         winner' = {m} /\ OwnsLine(board, board_len, m)
                    /\ player' = player
               ELSE IF Count(board, board_len, 0) = 0
               THEN pc' = "Drawn" /\ player' = player
               ELSE pc' = "AwaitingMove" /\ player' \in Markers \ {player}
       /\ pc \in {"Won", "Drawn"} =>
            \/ pc' = "Exit" /\ board' = board /\ player' = player
            \/ /\ pc' = "AwaitingMove"
               /\ moves' = 0
               /\ Count(board', board_len', 0) = board_len' * board_len'
       /\ pc # "Exit"]_vars

\* the game was won by the move that filled the last empty cell
C4_Witness ==
    /\ pc = "Won"
    /\ Count(board, board_len, 0) = 0
    /\ winner = {marker_x}

(* C5: at the move prompt, after k successful moves of the game, the       *)
(* current player is X when k is even and O when k is odd; rejected moves  *)
(* do not count.                                                           *)

C5_TurnsAlternate ==
    pc \in {"AwaitingMove", "Rejected"} =>
        player = (IF moves % 2 = 0 THEN marker_x ELSE marker_o)

\* three moves made, the fourth attempt just rejected
C5_Witness ==
    /\ pc = "Rejected"
    /\ moves = 3
    /\ lastResult = "InvalidInput"

(* C6: in every state of a game every cell is empty, X or O, and the       *)
(* number of X markers minus the number of O markers is 0 or 1.            *)

C6_CellsAndBalance ==
    InGame =>
        /\ \A c \in Cells(board_len) : board[c[1]][c[2]] \in CellValues
        /\ Count(board, board_len, marker_x) - Count(board, board_len, marker_o)
             \in {0, 1}

\* X is one ahead and O's attempt has just been rejected
C6_Witness ==
    /\ pc = "Rejected"
    /\ lastResult = "InvalidMove"
    /\ Count(board, board_len, marker_x) = 3
    /\ Count(board, board_len, marker_o) = 2

(* C7: at the move prompt, every input of two digits whose row index or    *)
(* column index (digit minus one) lies outside 0..N-1 is rejected as an    *)
(* invalid move, not as invalid input.                                     *)

OutOfRange(n, c, r) ==
    \/ IntOfChar(c) - 1 \notin 0..(n - 1)
    \/ IntOfChar(r) - 1 \notin 0..(n - 1)

C7_OutOfRangeIsInvalidMove ==
    pc = "AwaitingMove" =>
        \A c \in DigitChars, r \in DigitChars :
            OutOfRange(board_len, c, r)
              => place_marker(board, board_len, player, <<c, r>>).kind = "InvalidMove"

(* C8: at the move prompt, an input of two digits "cr" is accepted if and  *)
(* only if 1 <= c <= N, 1 <= r <= N and the cell of row r-1, column c-1 is *)
(* empty; when accepted, that cell and no other is written.                *)

OtherChars == {"a", "-", " "}

MalformedInputs ==
    {<< >>, <<"1">>, <<"a">>}
      \cup {<<a, b, c>> : a \in {"1", "a"}, b \in {"1", "a"}, c \in {"1", "a"}}
      \cup {<<a, b>> : a \in OtherChars, b \in DigitChars \cup OtherChars}
      \cup {<<a, b>> : a \in DigitChars, b \in OtherChars}

C9_MalformedIsInvalidInput ==
    pc = "AwaitingMove" =>
        \A pos \in MalformedInputs :
            LET res == place_marker(board, board_len, player, pos)
            IN  ~res.ret /\ res.kind = "InvalidInput" /\ res.board = board

\* on the largest board, where no column is too high, an input was rejected as invalid input
C9_Witness ==
    /\ pc = "Rejected"
    /\ lastResult = "InvalidInput"
    /\ board_len = board_max_size
    /\ moves = 2

(* C10: a game constructed with a size N in 3..9, before its first         *)
(* successful move, has board size N, a board of exactly N rows of N       *)
(* cells, all empty, and current player X.                                 *)

FreshGame == pc = "AwaitingMove" /\ moves = 0

C10_ConstructValidSize ==
    (FreshGame /\ size \in board_min_size..board_max_size) =>
        /\ board_len = size
        /\ DOMAIN board = 0..(size - 1)
        /\ \A x \in 0..(size - 1) :
             /\ DOMAIN board[x] = 0..(size - 1)
             /\ \A y \in 0..(size - 1) : board[x][y] = 0
        /\ player = marker_x

\* a game of size 7 has just been constructed
C10_Witness == FreshGame /\ size = 7 /\ board_len = 7

----------------------------------------------------------------------------
(* C11: a game constructed with a requested size below 3 (0 and negative   *)
(* sizes included) has a 3x3 board, one constructed with a size above 9    *)
(* has a 9x9 board, and at the size prompt construction is possible for    *)
(* every requested size.                                                   *)

IsSquare(b, n) ==
    /\ DOMAIN b = 0..(n - 1)
    /\ \A x \in 0..(n - 1) : DOMAIN b[x] = 0..(n - 1)

C11_ClampOutOfRangeSize ==
    /\ InGame =>
         /\ size < board_min_size
              => board_len = board_min_size /\ IsSquare(board, board_min_size)
         /\ size > board_max_size
              => board_len = board_max_size /\ IsSquare(board, board_max_size)
    /\ pc = "SelectSize" => \A s \in SizeInputs : ENABLED SelectSize(s)

\* a game has just been constructed for the requested size -1
C11_Witness == FreshGame /\ size = 0 - 1 /\ board_len = board_min_size

----------------------------------------------------------------------------
(* C12: at the replay prompt, every answer that contains the character y   *)
(* in either case ("y", "Y", "yes", "YES") starts a new game, and every    *)
(* other answer (the empty line and "n" included) ends the program.        *)

\* the answers of ReplayAnswers that contain "y" or "Y"
AffirmativeAnswers == {"y", "Y", "yes", "YES"}

C12_ReplayIffContainsY ==
    pc \in {"Won", "Drawn"} =>
        \A ans \in ReplayAnswers :
            IF ans \in AffirmativeAnswers
            THEN ENABLED Replay(ans) /\ ~ENABLED Quit(ans)
            ELSE ENABLED Quit(ans) /\ ~ENABLED Replay(ans)

----------------------------------------------------------------------------
(* C13: the game a replay starts has every cell empty, current player X    *)
(* whoever moved last or won, no move made and no winner, and the board    *)
(* size of the game before it; the requested size is the one entered at    *)
(* the start of the run.                                                   *)

C13_ReplayStartsFresh ==
    [][(pc \in {"Won", "Drawn"} /\ pc' # "Exit")
         => /\ pc' = "AwaitingMove"
            /\ size' = size
            /\ board_len' = board_len
            /\ IsSquare(board', board_len)
            /\ Count(board', board_len, 0) = board_len * board_len
            /\ player' = marker_x
            /\ moves' = 0
            /\ winner' = {}
            /\ lastResult' = "None"]_vars

\* a game started by a replay is at its first prompt
C13_Witness == replayed /\ FreshGame /\ player = marker_x /\ lastResult = "None"

----------------------------------------------------------------------------
(* C14: on every board, full() returns True if and only if no cell is      *)
(* empty.                                                                  *)

C14_FullIffNoEmptyCell ==
    pc = "ProbedFull" =>
        /\ probe.ret \in {"True", "False"}
        /\ probe.ret = "True" <=> Count(board, board_len, 0) = 0

\* full() returned True on a board larger than the smallest
C14_Witness ==
    /\ pc = "ProbedFull"
    /\ probe.ret = "True"
    /\ board_len > board_min_size

(* C15: in every state of a game at most one player owns a complete line;  *)
(* right after a successful move check_win returns nobody or the player    *)
(* who moved; and in a won game the current player, whom the announcement  *)
(* names, is the marker check_win returned.                                *)

C15_OnlyTheMoverWins ==
    InGame =>
        /\ ~(OwnsLine(board, board_len, marker_x) /\ OwnsLine(board, board_len, marker_o))
        /\ pc = "Placed" => check_win(board, board_len) \subseteq {player}
        /\ pc = "Won" => winner = {player} /\ OwnsLine(board, board_len, player)

\* O has won
C15_Witness == pc = "Won" /\ winner = {marker_o} /\ player = marker_o

(* C16: on every board, check_win returns the marker that fills the first  *)
(* complete line in the order rows top to bottom, columns left to right,   *)
(* main diagonal, anti-diagonal, and None when no line is complete.        *)

\* the lines in that order, each a sequence of cells <<row, column>>
ScanOrder(n) ==
    [k \in 1..(2 * n + 2) |->
        IF k <= n THEN [i \in 1..n |-> <<k - 1, i - 1>>]
        ELSE IF k <= 2 * n THEN [i \in 1..n |-> <<i - 1, k - n - 1>>]
        ELSE IF k = 2 * n + 1 THEN [i \in 1..n |-> <<i - 1, i - 1>>]
        ELSE [i \in 1..n |-> <<i - 1, n - i>>]]

CompleteFor(b, n, line, m) == \A i \in 1..n : b[line[i][1]][line[i][2]] = m

CompleteLines(b, n) ==
    {k \in 1..(2 * n + 2) : \E m \in Markers : CompleteFor(b, n, ScanOrder(n)[k], m)}

C16_FirstCompleteLineWins ==
    pc = "Probed" =>
        LET done == CompleteLines(board, board_len)
        IN  IF done = {} THEN winner = {}
            ELSE \E k \in done :
                    /\ \A j \in done : k <= j
                    /\ \E m \in Markers :
                         /\ CompleteFor(board, board_len, ScanOrder(board_len)[k], m)
                         /\ winner = {m}

\* both players own a complete line and check_win returned O
C16_Witness ==
    /\ pc = "Probed"
    /\ OwnsLine(board, board_len, marker_x)
    /\ OwnsLine(board, board_len, marker_o)
    /\ winner = {marker_o}
    /\ board_len > board_min_size

----------------------------------------------------------------------------
(* C17: a game makes at most N*N successful moves and is over once it has  *)
(* made N*N; at every move prompt the board has an empty cell and some     *)
(* line of two digits is an acceptable move; and, the player eventually    *)
(* typing an acceptable move whenever one exists, every game that awaits   *)
(* a move is eventually won or drawn.                                      *)

AtPrompt == pc \in {"AwaitingMove", "Rejected"}

C17_MovesBounded ==
    InGame =>
        /\ moves <= board_len * board_len
        /\ moves = board_len * board_len => ~AtPrompt

C17_MoveAvailable ==
    AtPrompt =>
        /\ Count(board, board_len, 0) >= 1
        /\ \E c \in DigitChars, r \in DigitChars :
             place_marker(board, board_len, player, <<c, r>>).ret

C17_EveryGameEnds ==
    /\ []C17_MovesBounded
    /\ []C17_MoveAvailable
    /\ (pc = "AwaitingMove") ~> (pc \in {"Won", "Drawn"})

\* a game was drawn by its N*N-th move
C17_Witness == pc = "Drawn" /\ moves = board_len * board_len

----------------------------------------------------------------------------
(* C18: within a game a cell that holds a marker keeps it (no step clears  *)
(* or overwrites it), and at every move prompt the line of two digits that *)
(* names a marked cell is rejected as an invalid move and changes nothing. *)

\* the digit character of value v
DigitOf(v) == CHOOSE ch \in DigitChars : IntOfChar(ch) = v

MarkedCells(b, n) == {c \in Cells(n) : b[c[1]][c[2]] # 0}

C18_MarkedCellRejected ==
    pc = "AwaitingMove" =>
        \A c \in MarkedCells(board, board_len) :
            LET res == place_marker(board, board_len, player,
                                    <<DigitOf(c[2] + 1), DigitOf(c[1] + 1)>>)
            IN  ~res.ret /\ res.kind = "InvalidMove" /\ res.board = board

C18_MarkersStay ==
    /\ []C18_MarkedCellRejected
    /\ [][(InGame /\ ~(pc \in {"Won", "Drawn"} /\ pc' = "AwaitingMove"))
            => \A c \in MarkedCells(board, board_len) :
                 board'[c[1]][c[2]] = board[c[1]][c[2]]]_vars

\* a move has been rejected as invalid on the largest board, where markers stand
C18_Witness ==
    /\ pc = "Rejected"
    /\ lastResult = "InvalidMove"
    /\ board_len = board_max_size
    /\ Count(board, board_len, marker_o) >= 2

----------------------------------------------------------------------------
(* C19: get_symbol, check_win and full leave the board, its size and the   *)
(* current player as they were, and for every cell of the board get_symbol *)
(* returns "X" exactly when the cell holds marker_x, "O" exactly when it   *)
(* holds marker_o and "-" exactly when it is empty.                        *)

C19_GlyphOfCell ==
    pc = "ProbedSymbol" =>
        LET v == board[probe.x][probe.y]
        IN  /\ probe.ret = "X" <=> v = marker_x
            /\ probe.ret = "O" <=> v = marker_o
            /\ probe.ret = "-" <=> v = 0

C19_ReadsChangeNothing ==
    /\ []C19_GlyphOfCell
    /\ [][pc = "Probe"
            => /\ pc' \in {"Probed", "ProbedFull", "ProbedSymbol"}
               /\ <<board, board_len, player, size, moves>>'
                    = <<board, board_len, player, size, moves>>]_vars

\* get_symbol returned "O" for a cell off the diagonal of a board larger than the smallest
C19_Witness ==
    /\ pc = "ProbedSymbol"
    /\ probe.ret = "O"
    /\ probe.x # probe.y
    /\ board_len > board_min_size

====
